---- MODULE Spec2Model ----
(***************************************************************************)
(* Model of the GIFT-Eval harness: the key normalisation of                *)
(* dataset_info.ipynb, the evaluation loops of the quick-start notebooks,  *)
(* ChronosPredictor.predict, the SLURM job scripts with the done-file      *)
(* helpers of scripts/utils.sh, and the domain merge of                    *)
(* archive/pretrain_domain.ipynb.                                          *)
(*                                                                         *)
(* Strings the code splits, lower-cases or compares are sequences of       *)
(* one-character strings, so that split("/"), lower() and the f-string     *)
(* formatting are computed and not assumed.                                *)
(***************************************************************************)
EXTENDS Integers, Sequences, FiniteSets, TLC

VARIABLES
    \* ---- get_key (dataset_info.ipynb)
    name,               \* argument of get_key
    key,                \* get_key(name)
    key_of_key,         \* get_key(get_key(name))
    key_with_freq,      \* get_key(name + "/" + freq)
    kpc,                \* position of the get_key driver
    \* ---- evaluation loop (chronos / moirai / feedforward notebooks)
    notebook,           \* which notebook runs
    all_datasets,       \* list of dataset names, in iteration order
    med_long_datasets,  \* set of names that also have medium and long terms
    csvfile,            \* the results CSV: a sequence of lines (field tuples)
    ds_num,             \* index of the dataset loop
    term_num,           \* index of the term loop
    ds_key,             \* loop variable ds_key
    ds_freq,            \* loop variable ds_freq
    ds_config,          \* loop variable ds_config
    res,                \* result of evaluate_model for the current pair
    hparams,            \* moirai: model.hparams
    predictor,          \* the predictor handed to evaluate_model
    evaluated,          \* the pairs evaluate_model was called for, in order
    epc,                \* position in the notebook cell
    \* ---- ChronosPredictor.predict
    test_data_input,    \* the input entries
    batch_size,         \* current batch size
    forecast_type,      \* pipeline.forecast_type
    forecast_outputs,   \* outputs collected in the current attempt
    batch_pos,          \* entries already consumed by batcher in this attempt
    attempt,            \* number of the current attempt
    forecasts,          \* the returned list
    ppc,                \* position in predict
    \* ---- job scripts
    script,             \* which job script the tasks run
    env,                \* per task: the SLURM_* environment
    fs_dirs,            \* directories that exist
    fs_files,           \* files that exist, with their content
    children,           \* per task: the child processes running
    status,             \* per task: exit status of the wrapped command
    done_dir,           \* per task: value returned by get_done_dir
    done_file,          \* per task: shell variable done_file
    spawned,            \* per task: shard processes already started
    log,                \* per task: messages written by log_info / log_error
    jpc,                \* per task: position in the script
    \* ---- pretraining domain merge (archive/pretrain_domain.ipynb)
    df_input,           \* rows of partial_dataset_info.csv: name and domain
    df_output,          \* rows of dataset_info.csv: name and domain
    dataset_info_csv,   \* the rows last saved to dataset_info.csv
    input_row,          \* index of the row of df_input the next pass step takes
    mpc                 \* position in the notebook

keyVars == <<name, key, key_of_key, key_with_freq, kpc>>
evalVars == <<notebook, all_datasets, med_long_datasets, csvfile, ds_num, term_num,
              ds_key, ds_freq, ds_config, res, hparams, predictor, evaluated, epc>>
predVars == <<test_data_input, batch_size, forecast_type, forecast_outputs,
              batch_pos, attempt, forecasts, ppc>>
jobVars == <<script, env, fs_dirs, fs_files, children, status, done_dir, done_file,
             spawned, log, jpc>>
mergeVars == <<df_input, df_output, dataset_info_csv, input_row, mpc>>
vars == <<keyVars, evalVars, predVars, jobVars, mergeVars>>

None == "None"

(***************************************************************************)
(* Python string primitives on character sequences.                        *)
(***************************************************************************)
ascii_uppercase == <<"A", "B", "C", "D", "E", "F", "G", "H", "I", "J", "K", "L", "M",
                     "N", "O", "P", "Q", "R", "S", "T", "U", "V", "W", "X", "Y", "Z">>
ascii_lowercase == <<"a", "b", "c", "d", "e", "f", "g", "h", "i", "j", "k", "l", "m",
                     "n", "o", "p", "q", "r", "s", "t", "u", "v", "w", "x", "y", "z">>

\* str.lower() on one character
lower_char(c) ==
    IF \E i \in DOMAIN ascii_uppercase : ascii_uppercase[i] = c
    THEN ascii_lowercase[CHOOSE i \in DOMAIN ascii_uppercase : ascii_uppercase[i] = c]
    ELSE c

\* str.lower()
lower(s) == [i \in 1..Len(s) |-> lower_char(s[i])]

\* c in s
contains(s, c) == \E i \in 1..Len(s) : s[i] = c

\* s.split(sep): the list of the parts of s between the occurrences of sep
RECURSIVE split(_, _)
split(s, sep) ==
    IF ~contains(s, sep)
    THEN <<s>>
    ELSE LET i == CHOOSE j \in 1..Len(s) :
                      s[j] = sep /\ \A k \in 1..(j - 1) : s[k] # sep
         IN  <<SubSeq(s, 1, i - 1)>> \o split(SubSeq(s, i + 1, Len(s)), sep)

(***************************************************************************)
(* Dataset names of the notebooks' lists, and the pretty_names table.      *)
(***************************************************************************)
saugeenday == <<"s", "a", "u", "g", "e", "e", "n", "d", "a", "y">>
saugeen == <<"s", "a", "u", "g", "e", "e", "n">>
temperature_rain_with_missing ==
    <<"t", "e", "m", "p", "e", "r", "a", "t", "u", "r", "e", "_", "r", "a", "i", "n",
      "_", "w", "i", "t", "h", "_", "m", "i", "s", "s", "i", "n", "g">>
temperature_rain ==
    <<"t", "e", "m", "p", "e", "r", "a", "t", "u", "r", "e", "_", "r", "a", "i", "n">>
kdd_cup_2018_with_missing ==
    <<"k", "d", "d", "_", "c", "u", "p", "_", "2", "0", "1", "8",
      "_", "w", "i", "t", "h", "_", "m", "i", "s", "s", "i", "n", "g">>
kdd_cup_2018 == <<"k", "d", "d", "_", "c", "u", "p", "_", "2", "0", "1", "8">>
car_parts_with_missing ==
    <<"c", "a", "r", "_", "p", "a", "r", "t", "s",
      "_", "w", "i", "t", "h", "_", "m", "i", "s", "s", "i", "n", "g">>
car_parts == <<"c", "a", "r", "_", "p", "a", "r", "t", "s">>
m4_weekly == <<"m", "4", "_", "w", "e", "e", "k", "l", "y">>
bizitobs_l2c == <<"b", "i", "z", "i", "t", "o", "b", "s", "_", "l", "2", "c">>
SZ_TAXI == <<"S", "Z", "_", "T", "A", "X", "I">>
sz_taxi == <<"s", "z", "_", "t", "a", "x", "i">>

pretty_names_keys ==
    {saugeenday, temperature_rain_with_missing, kdd_cup_2018_with_missing,
     car_parts_with_missing}

\* pretty_names[k]
pretty_names(k) ==
    CASE k = saugeenday -> saugeen
      [] k = temperature_rain_with_missing -> temperature_rain
      [] k = kdd_cup_2018_with_missing -> kdd_cup_2018
      [] k = car_parts_with_missing -> car_parts

\* pretty_names.get(k, k)
pretty_names_get(k) == IF k \in pretty_names_keys THEN pretty_names(k) ELSE k

(***************************************************************************)
(* get_key of dataset_info.ipynb.                                          *)
(***************************************************************************)
\* get_key with the table looked up before lower-casing
get_key_lookup_first(n) ==
    LET k == IF contains(n, "/") THEN split(n, "/")[1] ELSE n
    IN  lower(pretty_names_get(k))

get_key(n) ==
    LET k0 == IF contains(n, "/") THEN split(n, "/")[1] ELSE n
        k1 == lower(k0)
    IN  pretty_names_get(k1)

(***************************************************************************)
(* Values of the variables of the parts that a specification leaves idle.  *)
(***************************************************************************)
IdleKey ==
    /\ name = <<>> /\ key = <<>> /\ key_of_key = <<>> /\ key_with_freq = <<>>
    /\ kpc = "idle"

IdleEval ==
    /\ notebook = None /\ all_datasets = <<>> /\ med_long_datasets = {}
    /\ csvfile = <<>> /\ ds_num = 0 /\ term_num = 0
    /\ ds_key = <<>> /\ ds_freq = <<>> /\ ds_config = "" /\ res = <<>>
    /\ hparams = None /\ predictor = None /\ evaluated = <<>>
    /\ epc = "idle"

IdlePred ==
    /\ test_data_input = <<>> /\ batch_size = 0 /\ forecast_type = None
    /\ forecast_outputs = <<>> /\ batch_pos = 0 /\ attempt = 0
    /\ forecasts = <<>> /\ ppc = "idle"

IdleJob ==
    /\ script = None /\ env = <<>> /\ fs_dirs = {} /\ fs_files = <<>>
    /\ children = <<>> /\ status = <<>> /\ done_dir = <<>> /\ done_file = <<>>
    /\ spawned = <<>> /\ log = <<>> /\ jpc = <<>>

IdleMerge ==
    /\ df_input = <<>> /\ df_output = <<>> /\ dataset_info_csv = <<>>
    /\ input_row = 0 /\ mpc = "idle"

(***************************************************************************)
(* Driver of get_key: one call on an input name, then a call on the        *)
(* returned key, or a call on the name with a frequency suffix appended.   *)
(***************************************************************************)
MaxNameLen == 3

\* str.upper(), used only to build inputs
upper(s) ==
    [i \in 1..Len(s) |->
        IF \E j \in DOMAIN ascii_lowercase : ascii_lowercase[j] = s[i]
        THEN ascii_uppercase[CHOOSE j \in DOMAIN ascii_lowercase : ascii_lowercase[j] = s[i]]
        ELSE s[i]]

KeyBases ==
    {saugeenday, saugeen, temperature_rain_with_missing, kdd_cup_2018_with_missing,
     car_parts_with_missing, car_parts, m4_weekly, bizitobs_l2c, SZ_TAXI}

KeySuffixes == {<<>>, <<"/", "H">>, <<"/", "5", "T">>, <<"/">>, <<"/", "D", "/", "x">>}

\* every string of at most MaxNameLen characters over a small alphabet
ShortNames == UNION {[1..n -> {"a", "A", "/"}] : n \in 0..MaxNameLen}

KeyInputs ==
    {b \o s : b \in KeyBases, s \in KeySuffixes}
        \cup {upper(b) \o s : b \in KeyBases, s \in KeySuffixes}
        \cup ShortNames

\* frequency suffixes of the notebooks' dataset lists
Freqs == {<<"H">>, <<"D">>, <<"W">>, <<"5", "T">>}

KeyInit ==
    /\ name \in KeyInputs
    /\ key = <<>> /\ key_of_key = <<>> /\ key_with_freq = <<>>
    /\ kpc = "input"
    /\ IdleEval /\ IdlePred /\ IdleJob /\ IdleMerge

\* key = get_key(name)
GetKey ==
    /\ kpc = "input"
    /\ key' = get_key(name)
    /\ kpc' = "called"
    /\ UNCHANGED <<name, key_of_key, key_with_freq, evalVars, predVars, jobVars, mergeVars>>

\* get_key(key)
GetKeyOfKey ==
    /\ kpc = "called"
    /\ key_of_key' = get_key(key)
    /\ kpc' = "recalled"
    /\ UNCHANGED <<name, key, key_with_freq, evalVars, predVars, jobVars, mergeVars>>

\* get_key(name + "/" + freq)
GetKeyWithFreq ==
    /\ kpc = "called"
    /\ \E f \in Freqs : key_with_freq' = get_key(name \o <<"/">> \o f)
    /\ kpc' = "suffixed"
    /\ UNCHANGED <<name, key, key_of_key, evalVars, predVars, jobVars, mergeVars>>

KeyNext == GetKey \/ GetKeyOfKey \/ GetKeyWithFreq

SpecKey == KeyInit /\ [][KeyNext]_vars

\* The part of n before its first "/" (all of n when it has none).
BeforeFirstSlash(n) ==
    LET cut == {i \in 1..Len(n) : n[i] = "/"}
        first == IF cut = {} THEN Len(n) + 1
                 ELSE CHOOSE i \in cut : \A j \in cut : i <= j
    IN  SubSeq(n, 1, first - 1)

\* The key the documentation of get_key describes.
ExpectedKey(n) ==
    LET p == lower(BeforeFirstSlash(n))
    IN  CASE p = saugeenday -> saugeen
          [] p = temperature_rain_with_missing -> temperature_rain
          [] p = kdd_cup_2018_with_missing -> kdd_cup_2018
          [] p = car_parts_with_missing -> car_parts
          [] OTHER -> p

\* C6: get_key(name) is the lower-cased part of name before the first "/",
\* replaced by its pretty name when it has one; it holds no "/", it is the
\* same with a frequency suffix appended to name, and get_key of it is itself.
C6_GetKeyContract ==
    /\ kpc \in {"called", "recalled", "suffixed"} =>
          /\ key = ExpectedKey(name)
          /\ ~contains(key, "/")
    /\ kpc = "recalled" => key_of_key = key
    /\ kpc = "suffixed" => key_with_freq = key

\* get_key was applied twice to an upper-case name with a frequency suffix
\* whose key has a pretty name.
C6_Witness ==
    /\ kpc = "recalled"
    /\ name = upper(saugeenday) \o <<"/", "H">>
    /\ key = saugeen
    /\ key_of_key = saugeen

(***************************************************************************)
(* ChronosPredictor.predict (chronos.ipynb).                               *)
(*                                                                         *)
(* Entry i of test_data_input has a start and a target; the pipeline's     *)
(* output for a context is tagged with the context it was computed from    *)
(* and with the attempt that computed it.  torch.cuda.OutOfMemoryError     *)
(* and any other error may be raised by pipeline.predict on any batch.     *)
(***************************************************************************)
MaxEntries == 3
MaxBatchSize == 4

\* the i-th entry of the test input
Entry(i) == [start |-> 10 * i, target |-> [j \in 1..i |-> i]]

\* ForecastType of the chronos package
ForecastTypes == {"SAMPLES", "QUANTILES"}

PredInit ==
    /\ \E n \in 0..MaxEntries : test_data_input = [i \in 1..n |-> Entry(i)]
    /\ batch_size \in 1..MaxBatchSize
    /\ forecast_type \in ForecastTypes
    /\ forecast_outputs = <<>>
    /\ batch_pos = 0
    /\ attempt = 0
    /\ forecasts = <<>>
    /\ ppc = "try"
    /\ IdleKey /\ IdleEval /\ IdleJob /\ IdleMerge

\* an attempt that keeps the outputs of the attempts before it
StartAttemptKeepOutputs ==
    /\ ppc = "try"
    /\ batch_pos' = 0
    /\ attempt' = attempt + 1
    /\ ppc' = "batches"
    /\ UNCHANGED <<test_data_input, batch_size, forecast_type, forecast_outputs,
                   forecasts, keyVars, evalVars, jobVars, mergeVars>>

\* try: forecast_outputs = []; the batcher starts at the first entry
StartAttempt ==
    /\ ppc = "try"
    /\ forecast_outputs' = <<>>
    /\ batch_pos' = 0
    /\ attempt' = attempt + 1
    /\ ppc' = "batches"
    /\ UNCHANGED <<test_data_input, batch_size, forecast_type, forecasts,
                   keyVars, evalVars, jobVars, mergeVars>>

\* gluonts batcher: the next batch is list(islice(it, batch_size))
batcher_next == SubSeq(test_data_input, batch_pos + 1,
                       IF batch_pos + batch_size <= Len(test_data_input)
                       THEN batch_pos + batch_size
                       ELSE Len(test_data_input))

\* pipeline.predict(context, ...).numpy(): one output row per context
pipeline_predict(context) ==
    [i \in 1..Len(context) |-> [context |-> context[i], attempt |-> attempt]]

\* one iteration of the batch loop that succeeds
PredictBatch ==
    /\ ppc = "batches"
    /\ batcher_next # <<>>
    /\ LET batch == batcher_next
           context == [i \in 1..Len(batch) |-> batch[i].target]
       IN  /\ forecast_outputs' = Append(forecast_outputs, pipeline_predict(context))
           /\ batch_pos' = batch_pos + Len(batch)
    /\ UNCHANGED <<test_data_input, batch_size, forecast_type, attempt, forecasts, ppc,
                   keyVars, evalVars, jobVars, mergeVars>>

\* pipeline.predict raises torch.cuda.OutOfMemoryError
PredictBatchOOM ==
    /\ ppc = "batches"
    /\ batcher_next # <<>>
    /\ ppc' = "except"
    /\ UNCHANGED <<test_data_input, batch_size, forecast_type, forecast_outputs,
                   batch_pos, attempt, forecasts, keyVars, evalVars, jobVars,
                   mergeVars>>

\* pipeline.predict raises another error, which predict does not catch
PredictBatchError ==
    /\ ppc = "batches"
    /\ batcher_next # <<>>
    /\ ppc' = "raised"
    /\ UNCHANGED <<test_data_input, batch_size, forecast_type, forecast_outputs,
                   batch_pos, attempt, forecasts, keyVars, evalVars, jobVars,
                   mergeVars>>

\* the batcher is exhausted (it yields nothing at all when batch_size is 0)
EndOfBatches ==
    /\ ppc = "batches"
    /\ batcher_next = <<>>
    /\ ppc' = "concatenate"
    /\ UNCHANGED <<test_data_input, batch_size, forecast_type, forecast_outputs,
                   batch_pos, attempt, forecasts, keyVars, evalVars, jobVars,
                   mergeVars>>

RECURSIVE np_concatenate(_)
\* np.concatenate of a non-empty list of arrays, along the first axis
np_concatenate(arrays) ==
    IF Len(arrays) = 1 THEN arrays[1]
    ELSE arrays[1] \o np_concatenate(Tail(arrays))

\* forecast_outputs = np.concatenate(forecast_outputs); break
Concatenate ==
    /\ ppc = "concatenate"
    /\ forecast_outputs # <<>>
    /\ forecast_outputs' = np_concatenate(forecast_outputs)
    /\ ppc' = "convert"
    /\ UNCHANGED <<test_data_input, batch_size, forecast_type, batch_pos, attempt,
                   forecasts, keyVars, evalVars, jobVars, mergeVars>>

\* np.concatenate([]) raises ValueError, which predict does not catch
ConcatenateNothing ==
    /\ ppc = "concatenate"
    /\ forecast_outputs = <<>>
    /\ ppc' = "raised"
    /\ UNCHANGED <<test_data_input, batch_size, forecast_type, forecast_outputs,
                   batch_pos, attempt, forecasts, keyVars, evalVars, jobVars,
                   mergeVars>>

\* an except clause that retries with the same batch size
HandleOOMSameBatchSize ==
    /\ ppc = "except"
    /\ ppc' = "try"
    /\ UNCHANGED <<test_data_input, batch_size, forecast_type, forecast_outputs,
                   batch_pos, attempt, forecasts, keyVars, evalVars, jobVars,
                   mergeVars>>

\* an except clause that never lets the batch size fall below 1
HandleOOMAtLeastOne ==
    /\ ppc = "except"
    /\ batch_size' = IF batch_size \div 2 >= 1 THEN batch_size \div 2 ELSE 1
    /\ ppc' = "try"
    /\ UNCHANGED <<test_data_input, forecast_type, forecast_outputs, batch_pos,
                   attempt, forecasts, keyVars, evalVars, jobVars, mergeVars>>

\* except torch.cuda.OutOfMemoryError: batch_size //= 2
HandleOOM ==
    /\ ppc = "except"
    /\ batch_size' = batch_size \div 2
    /\ ppc' = "try"
    /\ UNCHANGED <<test_data_input, forecast_type, forecast_outputs, batch_pos,
                   attempt, forecasts, keyVars, evalVars, jobVars, mergeVars>>

\* zip(a, b): as long as the shorter of the two
zip(a, b) ==
    [i \in 1..(IF Len(a) <= Len(b) THEN Len(a) ELSE Len(b)) |-> <<a[i], b[i]>>]

\* the Forecast object built from one (item, ts) pair
make_forecast(item, ts) ==
    [class |-> IF forecast_type = "SAMPLES" THEN "SampleForecast" ELSE "QuantileForecast",
     item |-> item,
     start_date |-> ts.start + Len(ts.target)]

\* the conversion loop and the return
ConvertAndReturn ==
    /\ ppc = "convert"
    /\ LET pairs == zip(forecast_outputs, test_data_input)
           made == [i \in 1..Len(pairs) |-> make_forecast(pairs[i][1], pairs[i][2])]
       IN  forecasts' = IF forecast_type \in {"SAMPLES", "QUANTILES"} THEN made ELSE <<>>
    /\ ppc' = "returned"
    /\ UNCHANGED <<test_data_input, batch_size, forecast_type, forecast_outputs,
                   batch_pos, attempt, keyVars, evalVars, jobVars, mergeVars>>

PredNext ==
    \/ StartAttempt
    \/ PredictBatch
    \/ PredictBatchOOM
    \/ PredictBatchError
    \/ EndOfBatches
    \/ Concatenate
    \/ ConcatenateNothing
    \/ HandleOOM
    \/ ConvertAndReturn

SpecPredict == PredInit /\ [][PredNext]_vars

\* C4: when predict returns, there is one forecast per input entry, and the
\* i-th forecast was computed from the i-th entry's target and starts where
\* that entry's target ends.
C4_OneForecastPerEntryInOrder ==
    ppc = "returned" =>
        /\ Len(forecasts) = Len(test_data_input)
        /\ \A i \in 1..Len(forecasts) :
              /\ forecasts[i].item.context = test_data_input[i].target
              /\ forecasts[i].start_date
                    = test_data_input[i].start + Len(test_data_input[i].target)

\* predict returned after two out-of-memory retries, the last attempt having
\* predicted several batches.
C4_Witness ==
    /\ ppc = "returned"
    /\ attempt = 3
    /\ batch_size = 1
    /\ Len(test_data_input) = 3
    /\ Len(forecasts) = 3

\* the outputs collected so far are those of the entries 1..batch_pos, in
\* order, all computed by the current attempt
C11_OutputsOfCurrentAttempt ==
    ppc \in {"batches", "except", "concatenate"} =>
       LET rows == IF forecast_outputs = <<>> THEN <<>>
                   ELSE np_concatenate(forecast_outputs)
       IN  /\ attempt >= 1
           /\ Len(rows) = batch_pos
           /\ \A i \in 1..Len(rows) :
                 /\ rows[i].attempt = attempt
                 /\ rows[i].context = test_data_input[i].target

\* the returned forecasts were all computed by the last attempt
C11_ForecastsOfFinalAttempt ==
    ppc = "returned" =>
       /\ Len(forecasts) = Len(test_data_input)
       /\ \A i \in 1..Len(forecasts) : forecasts[i].item.attempt = attempt

\* the except clause halves the batch size and leads to a new attempt, which
\* starts without outputs at the first entry
C11_RetryStep ==
    /\ ppc = "except" =>
          /\ ppc' = "try"
          /\ batch_size' = batch_size \div 2
          /\ attempt' = attempt
    /\ ppc = "try" =>
          /\ ppc' = "batches"
          /\ forecast_outputs' = <<>>
          /\ batch_pos' = 0
          /\ attempt' = attempt + 1
          /\ batch_size' = batch_size
    /\ ppc = "batches" => ppc' \in {"batches", "except", "raised", "concatenate"}

\* C11: after torch.cuda.OutOfMemoryError on any batch of an attempt, the
\* outputs of that attempt are discarded, batch_size becomes batch_size // 2
\* and prediction restarts at the first entry; the returned forecasts all
\* come from the final attempt.
C11_OOMRestartsWithHalvedBatch ==
    /\ []C11_OutputsOfCurrentAttempt
    /\ []C11_ForecastsOfFinalAttempt
    /\ [][C11_RetryStep]_vars

\* predict returned from a second attempt with batch size 1 over three
\* entries, after out-of-memory in the first attempt.
C11_Witness ==
    /\ ppc = "returned"
    /\ attempt = 2
    /\ batch_size = 1
    /\ Len(test_data_input) = 3
    /\ Len(forecasts) = 3
    /\ forecasts[1].item.attempt = 2
    /\ forecasts[3].item.attempt = 2

\* predict as the interpreter runs it: a statement that can run does run
FairSpecPredict == PredInit /\ [][PredNext]_vars /\ WF_vars(PredNext)

\* the retry lowers the batch size, which is at least 1 when
\* torch.cuda.OutOfMemoryError is caught
C12_RetryDecreasesBatchSize ==
    ppc = "except" => batch_size >= 1 /\ batch_size' < batch_size /\ batch_size' >= 0

\* C12: the retry loop of predict terminates: every retry strictly decreases
\* the batch size, and predict ends by returning from a successful attempt or
\* by raising an error other than out-of-memory, even when every batch of
\* every attempt runs out of memory.
C12_RetryLoopTerminates ==
    /\ <>(ppc \in {"returned", "raised"})
    /\ [][C12_RetryDecreasesBatchSize]_vars
    /\ [](ppc = "batches" /\ batch_size = 0 => batcher_next = <<>>)

\* out-of-memory at batch sizes 4, 2 and 1: the fourth attempt runs with
\* batch size 0, predicts nothing, and np.concatenate raises ValueError.
C12_Witness ==
    /\ ppc = "raised"
    /\ batch_size = 0
    /\ attempt = 4
    /\ Len(test_data_input) >= 1
    /\ forecast_outputs = <<>>

(***************************************************************************)
(* The SLURM job scripts and the done-file helpers of scripts/utils.sh.    *)
(*                                                                         *)
(* Tasks are the instances of one script that the scheduler runs at the    *)
(* same time: the tasks of one array job, or separate jobs of a script     *)
(* without --array.  A path is the sequence of its components; the file    *)
(* system holds normalised paths.                                          *)
(***************************************************************************)
NumTasks == 2
Tasks == 1..NumTasks

\* job name, whether the script is an array job, and how it makes its done file
Scripts ==
    [load_dataset |-> [job_name |-> "load_datasets", array |-> TRUE,
                       done |-> "get_done_file"],
     load_pretrain |-> [job_name |-> "load_datasets", array |-> TRUE,
                        done |-> "get_done_file"],
     zero_shot_eval |-> [job_name |-> "zero_shot_eval", array |-> TRUE,
                         done |-> "get_done_file"],
     train_test_dataset_analysis |-> [job_name |-> "train_test_dataset_analysis",
                                      array |-> TRUE, done |-> "get_done_file"],
     dataset_analysis |-> [job_name |-> "dataset_analysis", array |-> FALSE,
                           done |-> "inline"],
     pretrain_info |-> [job_name |-> "pretrain_info", array |-> FALSE,
                        done |-> "get_done_file"],
     download_datasets |-> [job_name |-> "download_datasets", array |-> TRUE,
                            done |-> "inline"],
     eval_taskbench |-> [job_name |-> "eval_taskbench", array |-> TRUE,
                         done |-> "taskbench"]]

ScriptNames == DOMAIN Scripts

\* the environment SLURM gives task t of script sc
slurm_env(sc, t) ==
    [SLURM_JOB_NAME |-> Scripts[sc].job_name,
     SLURM_JOB_ID |-> ToString(123456 + t),
     SLURM_ARRAY_JOB_ID |-> IF Scripts[sc].array THEN "123456" ELSE "",
     SLURM_ARRAY_TASK_ID |-> IF Scripts[sc].array THEN ToString(t - 1) ELSE ""]

\* the path without its "." components
normpath(path) == SelectSeq(path, LAMBDA c : c # ".")

\* the directories mkdir -p creates for a path
mkdir_p(path) == {SubSeq(normpath(path), 1, n) : n \in 1..Len(normpath(path))}

parent(path) == SubSeq(path, 1, Len(path) - 1)

\* touch: the file system's files after touching path
touch(files, dirs, path) ==
    LET f == normpath(path)
    IN  IF f \in DOMAIN files \/ parent(f) \notin dirs
        THEN files
        ELSE [q \in DOMAIN files \cup {f} |-> IF q = f THEN "" ELSE files[q]]

\* echo text > path
redirect(files, dirs, path, text) ==
    LET f == normpath(path)
    IN  IF parent(f) \notin dirs
        THEN files
        ELSE [q \in DOMAIN files \cup {f} |-> IF q = f THEN text ELSE files[q]]

\* get_done_dir testing -z where the script tests -n
get_done_dir_swapped(e) ==
    LET base_dir == <<".", "logs", e.SLURM_JOB_NAME, "done">>
    IN  IF e.SLURM_ARRAY_JOB_ID = ""
        THEN base_dir \o <<e.SLURM_ARRAY_JOB_ID>>
        ELSE base_dir

\* get_done_dir of utils.sh: the path it echoes
get_done_dir(e) ==
    LET base_dir == <<".", "logs", e.SLURM_JOB_NAME, "done">>
    IN  IF e.SLURM_ARRAY_JOB_ID # ""
        THEN base_dir \o <<e.SLURM_ARRAY_JOB_ID>>
        ELSE base_dir

\* the file name taken from the array job id in the array branch
done_file_name_of_array_job(e) ==
    IF e.SLURM_ARRAY_JOB_ID # ""
    THEN e.SLURM_ARRAY_JOB_ID \o ".done"
    ELSE e.SLURM_JOB_ID \o ".done"

\* get_done_file of utils.sh: the file name it chooses
done_file_name(e) ==
    IF e.SLURM_ARRAY_JOB_ID # ""
    THEN e.SLURM_ARRAY_TASK_ID \o ".done"
    ELSE e.SLURM_JOB_ID \o ".done"

\* done directory and done file written in line by dataset_analysis and
\* download_datasets
inline_done_dir(sc, e) ==
    IF sc = "download_datasets"
    THEN <<"logs", e.SLURM_JOB_NAME, "done", e.SLURM_ARRAY_JOB_ID>>
    ELSE <<"logs", e.SLURM_JOB_NAME, "done">>

inline_done_file(sc, e, dir) ==
    IF sc = "download_datasets"
    THEN dir \o <<e.SLURM_ARRAY_TASK_ID \o ".done">>
    ELSE dir \o <<e.SLURM_JOB_ID \o ".done">>

\* eval_taskbench: the GPUs it starts a shard process for, in order
gpu_ids_five == <<0, 1, 2, 3, 4>>

gpu_ids == <<0, 1, 2, 3>>

subsets == <<"dailylifeapis", "huggingface", "multimedia">>

\* eval_taskbench: ${model_name//\//_} of codellama/CodeLlama-13b-hf
sanitized_model_name == "codellama" \o "_" \o "CodeLlama-13b-hf"

\* eval_taskbench: DONE_DIR and DONE_FILE
taskbench_done_dir(e) == <<"done", e.SLURM_JOB_NAME, e.SLURM_ARRAY_JOB_ID>>

taskbench_done_file(t, e) ==
    taskbench_done_dir(e)
        \o <<sanitized_model_name \o "_" \o subsets[((t - 1) % Len(subsets)) + 1]
             \o ".done">>

\* the directories a script makes before it runs its command
setup_dirs(sc, t, e) ==
    CASE sc = "eval_taskbench" ->
            mkdir_p(<<"logs", e.SLURM_JOB_NAME, e.SLURM_ARRAY_JOB_ID, "out",
                      "task_" \o e.SLURM_ARRAY_TASK_ID>>)
                \cup mkdir_p(<<"logs", e.SLURM_JOB_NAME, e.SLURM_ARRAY_JOB_ID, "err",
                               "task_" \o e.SLURM_ARRAY_TASK_ID>>)
      [] sc = "download_datasets" ->
            mkdir_p(<<"logs">>)
                \cup mkdir_p(<<".", "datasets",
                               IF e.SLURM_ARRAY_TASK_ID = "0" THEN "pretrain"
                               ELSE "train_test">>)
      [] OTHER -> mkdir_p(<<"logs">>)

JobInit ==
    /\ script \in ScriptNames
    /\ env = [t \in Tasks |-> slurm_env(script, t)]
    /\ fs_dirs = {}
    /\ fs_files = <<>>
    /\ children = [t \in Tasks |-> {}]
    /\ status = [t \in Tasks |-> <<>>]
    /\ done_dir = [t \in Tasks |-> <<>>]
    /\ done_file = [t \in Tasks |-> <<>>]
    /\ spawned = [t \in Tasks |-> 0]
    /\ log = [t \in Tasks |-> <<>>]
    /\ jpc = [t \in Tasks |-> "start"]
    /\ IdleKey /\ IdleEval /\ IdlePred /\ IdleMerge

\* mkdir -p logs (and the script's other directories), source utils.sh
Setup(t) ==
    /\ jpc[t] = "start"
    /\ fs_dirs' = fs_dirs \cup setup_dirs(script, t, env[t])
    /\ jpc' = [jpc EXCEPT ![t] =
                  CASE script = "eval_taskbench" -> "spawn"
                    [] script = "download_datasets" -> "count"
                    [] OTHER -> "run"]
    /\ UNCHANGED <<script, env, fs_files, children, status, done_dir, done_file,
                   spawned, log, keyVars, evalVars, predVars, mergeVars>>

\* download_datasets: the split is already there; exit 0
AlreadyDownloaded(t) ==
    /\ jpc[t] = "count"
    /\ log' = [log EXCEPT ![t] = Append(@, "already downloaded")]
    /\ jpc' = [jpc EXCEPT ![t] = "exit0"]
    /\ UNCHANGED <<script, env, fs_dirs, fs_files, children, status, done_dir,
                   done_file, spawned, keyVars, evalVars, predVars, mergeVars>>

\* download_datasets: the split is not complete
NotDownloaded(t) ==
    /\ jpc[t] = "count"
    /\ jpc' = [jpc EXCEPT ![t] = "run"]
    /\ UNCHANGED <<script, env, fs_dirs, fs_files, children, status, done_dir,
                   done_file, spawned, log, keyVars, evalVars, predVars, mergeVars>>

\* if <command>: the wrapped command starts, in the foreground
StartCommand(t) ==
    /\ jpc[t] = "run"
    /\ children' = [children EXCEPT ![t] = {0}]
    /\ jpc' = [jpc EXCEPT ![t] = "command"]
    /\ UNCHANGED <<script, env, fs_dirs, fs_files, status, done_dir, done_file,
                   spawned, log, keyVars, evalVars, predVars, mergeVars>>

\* a script that takes the then-branch whatever the command's exit status
CommandExitIgnoringStatus(t) ==
    /\ jpc[t] = "command"
    /\ \E st \in {0, 1} : status' = [status EXCEPT ![t] = <<st>>]
    /\ children' = [children EXCEPT ![t] = {}]
    /\ jpc' = [jpc EXCEPT ![t] = "success"]
    /\ UNCHANGED <<script, env, fs_dirs, fs_files, done_dir, done_file, spawned, log,
                   keyVars, evalVars, predVars, mergeVars>>

\* the wrapped command exits; then-branch on status 0, else-branch otherwise
CommandExit(t) ==
    /\ jpc[t] = "command"
    /\ \E st \in {0, 1} :
          /\ status' = [status EXCEPT ![t] = <<st>>]
          /\ jpc' = [jpc EXCEPT ![t] = IF st = 0 THEN "success" ELSE "failure"]
    /\ children' = [children EXCEPT ![t] = {}]
    /\ UNCHANGED <<script, env, fs_dirs, fs_files, done_dir, done_file, spawned, log,
                   keyVars, evalVars, predVars, mergeVars>>

\* then-branch: the two log lines, then get_done_file calls get_done_dir
CallGetDoneDir(t) ==
    /\ jpc[t] = "success"
    /\ Scripts[script].done = "get_done_file"
    /\ log' = [log EXCEPT ![t] = @ \o <<"Successfully", "No errors">>]
    /\ done_dir' = [done_dir EXCEPT ![t] = get_done_dir(env[t])]
    /\ fs_dirs' = fs_dirs \cup mkdir_p(get_done_dir(env[t]))
    /\ jpc' = [jpc EXCEPT ![t] = "got_done_dir"]
    /\ UNCHANGED <<script, env, fs_files, children, status, done_file, spawned,
                   keyVars, evalVars, predVars, mergeVars>>

\* the rest of get_done_file: the path, touch, echo
CallGetDoneFile(t) ==
    /\ jpc[t] = "got_done_dir"
    /\ LET done_path == done_dir[t] \o <<done_file_name(env[t])>>
       IN  /\ fs_files' = touch(fs_files, fs_dirs, done_path)
           /\ done_file' = [done_file EXCEPT ![t] = done_path]
    /\ jpc' = [jpc EXCEPT ![t] = "got_done_file"]
    /\ UNCHANGED <<script, env, fs_dirs, children, status, done_dir, spawned, log,
                   keyVars, evalVars, predVars, mergeVars>>

\* then-branch of dataset_analysis and download_datasets: done_dir, mkdir -p
InlineDoneDir(t) ==
    /\ jpc[t] = "success"
    /\ Scripts[script].done = "inline"
    /\ log' = [log EXCEPT ![t] = @ \o <<"Successfully", "No errors">>]
    /\ done_dir' = [done_dir EXCEPT ![t] = inline_done_dir(script, env[t])]
    /\ fs_dirs' = fs_dirs \cup mkdir_p(inline_done_dir(script, env[t]))
    /\ jpc' = [jpc EXCEPT ![t] = "made_done_dir"]
    /\ UNCHANGED <<script, env, fs_files, children, status, done_file, spawned,
                   keyVars, evalVars, predVars, mergeVars>>

\* done_file=...; touch "$done_file"
InlineDoneFile(t) ==
    /\ jpc[t] = "made_done_dir"
    /\ LET done_path == inline_done_file(script, env[t], done_dir[t])
       IN  /\ fs_files' = touch(fs_files, fs_dirs, done_path)
           /\ done_file' = [done_file EXCEPT ![t] = done_path]
    /\ jpc' = [jpc EXCEPT ![t] = "got_done_file"]
    /\ UNCHANGED <<script, env, fs_dirs, children, status, done_dir, spawned, log,
                   keyVars, evalVars, predVars, mergeVars>>

\* echo "[${end_time}] Done ..." > "$done_file"
WriteDoneFile(t) ==
    /\ jpc[t] = "got_done_file"
    /\ fs_files' = redirect(fs_files, fs_dirs, done_file[t], "Done")
    /\ jpc' = [jpc EXCEPT ![t] = "exit0"]
    /\ UNCHANGED <<script, env, fs_dirs, children, status, done_dir, done_file,
                   spawned, log, keyVars, evalVars, predVars, mergeVars>>

\* else-branch: log_error, and exit 1 (download_datasets only logs)
Fail(t) ==
    /\ jpc[t] = "failure"
    /\ log' = [log EXCEPT ![t] = Append(@, "ERROR")]
    /\ jpc' = [jpc EXCEPT ![t] =
                  IF script = "download_datasets" THEN "exit0" ELSE "exit1"]
    /\ UNCHANGED <<script, env, fs_dirs, fs_files, children, status, done_dir,
                   done_file, spawned, keyVars, evalVars, predVars, mergeVars>>

\* eval_taskbench: one iteration of the for loop starts a shard in the background
SpawnShard(t) ==
    /\ jpc[t] = "spawn"
    /\ children' = [children EXCEPT ![t] = @ \cup {gpu_ids[spawned[t] + 1]}]
    /\ spawned' = [spawned EXCEPT ![t] = @ + 1]
    /\ jpc' = [jpc EXCEPT ![t] =
                  IF spawned[t] + 1 = Len(gpu_ids) THEN "wait" ELSE "spawn"]
    /\ UNCHANGED <<script, env, fs_dirs, fs_files, status, done_dir, done_file, log,
                   keyVars, evalVars, predVars, mergeVars>>

\* eval_taskbench: a shard process exits; the script never reads its status
ShardExit(t) ==
    /\ script = "eval_taskbench"
    /\ \E g \in children[t] : children' = [children EXCEPT ![t] = @ \ {g}]
    /\ UNCHANGED <<script, env, fs_dirs, fs_files, status, done_dir, done_file,
                   spawned, log, jpc, keyVars, evalVars, predVars, mergeVars>>

\* a wait that returns while background processes are running
WaitReturnsAtOnce(t) ==
    /\ jpc[t] = "wait"
    /\ jpc' = [jpc EXCEPT ![t] = "after_wait"]
    /\ UNCHANGED <<script, env, fs_dirs, fs_files, children, status, done_dir,
                   done_file, spawned, log, keyVars, evalVars, predVars, mergeVars>>

\* eval_taskbench: wait returns when no background process is left
Wait(t) ==
    /\ jpc[t] = "wait"
    /\ children[t] = {}
    /\ jpc' = [jpc EXCEPT ![t] = "after_wait"]
    /\ UNCHANGED <<script, env, fs_dirs, fs_files, children, status, done_dir,
                   done_file, spawned, log, keyVars, evalVars, predVars, mergeVars>>

\* eval_taskbench: log_error "No errors ...", DONE_DIR, mkdir -p, DONE_FILE, touch
TaskbenchDoneFile(t) ==
    /\ jpc[t] = "after_wait"
    /\ log' = [log EXCEPT ![t] = Append(@, "No errors")]
    /\ done_dir' = [done_dir EXCEPT ![t] = taskbench_done_dir(env[t])]
    /\ done_file' = [done_file EXCEPT ![t] = taskbench_done_file(t, env[t])]
    /\ fs_dirs' = fs_dirs \cup mkdir_p(taskbench_done_dir(env[t]))
    /\ fs_files' = touch(fs_files, fs_dirs', taskbench_done_file(t, env[t]))
    /\ jpc' = [jpc EXCEPT ![t] = "got_done_file"]
    /\ UNCHANGED <<script, env, children, status, spawned, keyVars, evalVars, predVars,
                   mergeVars>>

JobNext ==
    \E t \in Tasks :
        \/ Setup(t)
        \/ AlreadyDownloaded(t)
        \/ NotDownloaded(t)
        \/ StartCommand(t)
        \/ CommandExit(t)
        \/ CallGetDoneDir(t)
        \/ CallGetDoneFile(t)
        \/ InlineDoneDir(t)
        \/ InlineDoneFile(t)
        \/ WriteDoneFile(t)
        \/ Fail(t)
        \/ SpawnShard(t)
        \/ ShardExit(t)
        \/ Wait(t)
        \/ TaskbenchDoneFile(t)

SpecJob == JobInit /\ [][JobNext]_vars

\* The done file of task t, as the scripts' comments name it.
ExpectedDoneFile(t) ==
    IF env[t].SLURM_ARRAY_JOB_ID # ""
    THEN <<"logs", env[t].SLURM_JOB_NAME, "done", env[t].SLURM_ARRAY_JOB_ID,
           env[t].SLURM_ARRAY_TASK_ID \o ".done">>
    ELSE <<"logs", env[t].SLURM_JOB_NAME, "done", env[t].SLURM_JOB_ID \o ".done">>

\* C7: in every job script but eval_taskbench, a done file exists only for a
\* task whose wrapped command has exited with status 0; the task of a
\* failed command has none.
C7_DoneFileOnlyAfterSuccess ==
    script \in ScriptNames \ {"eval_taskbench"} =>
        /\ \A t \in Tasks :
              ExpectedDoneFile(t) \in DOMAIN fs_files => status[t] = <<0>>
        /\ \A f \in DOMAIN fs_files :
              \E t \in Tasks : f = ExpectedDoneFile(t) /\ status[t] = <<0>>

\* One task's command failed and it has no done file; the other's succeeded
\* and its done file is written.
C7_Witness ==
    /\ script = "load_dataset"
    /\ status[1] = <<1>> /\ jpc[1] = "exit1"
    /\ ExpectedDoneFile(1) \notin DOMAIN fs_files
    /\ status[2] = <<0>> /\ jpc[2] = "exit0"
    /\ ExpectedDoneFile(2) \in DOMAIN fs_files
    /\ fs_files[ExpectedDoneFile(2)] = "Done"

\* C8: when get_done_dir returns, its value is ./logs/<job name>/done/<array
\* job id> for an array task and ./logs/<job name>/done otherwise, and that
\* directory exists.
C8_GetDoneDirContract ==
    \A t \in Tasks :
        jpc[t] = "got_done_dir" =>
            /\ env[t].SLURM_ARRAY_JOB_ID # "" =>
                  done_dir[t] = <<".", "logs", env[t].SLURM_JOB_NAME, "done",
                                  env[t].SLURM_ARRAY_JOB_ID>>
            /\ env[t].SLURM_ARRAY_JOB_ID = "" =>
                  done_dir[t] = <<".", "logs", env[t].SLURM_JOB_NAME, "done">>
            /\ normpath(done_dir[t]) \in fs_dirs
            /\ \A n \in 1..Len(normpath(done_dir[t])) :
                  SubSeq(normpath(done_dir[t]), 1, n) \in fs_dirs

\* get_done_dir has returned in both tasks of an array job.
C8_Witness ==
    /\ script = "zero_shot_eval"
    /\ jpc[1] = "got_done_dir" /\ jpc[2] = "got_done_dir"
    /\ done_dir[1] = <<".", "logs", "zero_shot_eval", "done", "123456">>
    /\ <<"logs", "zero_shot_eval", "done", "123456">> \in fs_dirs

\* get_done_file has returned in task t
GotDoneFile(t) ==
    /\ Scripts[script].done = "get_done_file"
    /\ jpc[t] \in {"got_done_file", "exit0"}

\* C9: when get_done_file returns, its value is a path in the directory
\* get_done_dir gave, named <array task id>.done for an array task and
\* <job id>.done otherwise, and the file exists; two tasks of one array job
\* never get the same path.
C9_GetDoneFileContract ==
    /\ \A t \in Tasks :
          GotDoneFile(t) =>
              /\ Len(done_file[t]) = Len(done_dir[t]) + 1
              /\ SubSeq(done_file[t], 1, Len(done_dir[t])) = done_dir[t]
              /\ env[t].SLURM_ARRAY_JOB_ID # "" =>
                    done_file[t][Len(done_file[t])]
                        = env[t].SLURM_ARRAY_TASK_ID \o ".done"
              /\ env[t].SLURM_ARRAY_JOB_ID = "" =>
                    done_file[t][Len(done_file[t])] = env[t].SLURM_JOB_ID \o ".done"
              /\ normpath(done_file[t]) \in DOMAIN fs_files
    /\ \A t1, t2 \in Tasks :
          /\ t1 # t2
          /\ GotDoneFile(t1) /\ GotDoneFile(t2)
          /\ env[t1].SLURM_ARRAY_JOB_ID # ""
          /\ env[t1].SLURM_ARRAY_JOB_ID = env[t2].SLURM_ARRAY_JOB_ID
          => done_file[t1] # done_file[t2]

\* get_done_file has returned in two tasks of one array job.
C9_Witness ==
    /\ script = "train_test_dataset_analysis"
    /\ jpc[1] = "got_done_file" /\ jpc[2] = "got_done_file"
    /\ done_file[1] = <<".", "logs", "train_test_dataset_analysis", "done", "123456",
                        "0.done">>
    /\ done_file[2] = <<".", "logs", "train_test_dataset_analysis", "done", "123456",
                        "1.done">>

\* C10 as stated: no task of any script has more than one child process
\* running at a time.
C10_AtMostOneChild == \A t \in Tasks : Cardinality(children[t]) <= 1

\* C10, amended: every script but eval_taskbench has at most one wrapped
\* command running in a task at a time; eval_taskbench runs its per-GPU
\* shard processes in the background, up to four of them at a time.
C10_OnlyTaskbenchRunsInParallel ==
    \A t \in Tasks :
        /\ script # "eval_taskbench" => Cardinality(children[t]) <= 1
        /\ script = "eval_taskbench" => children[t] \subseteq {0, 1, 2, 3}

\* All four shard processes of one eval_taskbench task are running.
C10_Witness ==
    /\ script = "eval_taskbench"
    /\ children[1] = {0, 1, 2, 3}
    /\ jpc[1] = "wait"

(***************************************************************************)
(* The evaluation loops: the quick-start notebooks chronos, moirai and     *)
(* feedforward, which share one loop, and the feed-forward training        *)
(* notebook ("combined"), which loops over terms first and writes its rows *)
(* with write_to_csv.  Every field of a CSV line is a string.              *)
(***************************************************************************)
MaxDatasets == 2

QuickStart == {"chronos", "moirai", "feedforward"}
Notebooks == QuickStart \cup {"combined"}

\* names of the notebooks' dataset lists
bizitobs_l2c_H == bizitobs_l2c \o <<"/", "H">>
SZ_TAXI_H == SZ_TAXI \o <<"/", "H">>
saugeenday_D == saugeenday \o <<"/", "D">>
DatasetNames == {m4_weekly, bizitobs_l2c_H, SZ_TAXI_H, saugeenday_D, car_parts_with_missing}

terms == <<"short", "medium", "long">>

\* dataset_properties_map: the keys of dataset_properties.json and their entries
dataset_properties_keys == {m4_weekly, bizitobs_l2c, sz_taxi, saugeen, car_parts}

dataset_properties_map(k) ==
    CASE k = m4_weekly -> [domain |-> "Econ/Fin", frequency |-> <<"W">>, num_variates |-> 1]
      [] k = bizitobs_l2c ->
            [domain |-> "Web/CloudOps", frequency |-> <<"H">>, num_variates |-> 7]
      [] k = sz_taxi -> [domain |-> "Transport", frequency |-> <<"H">>, num_variates |-> 1]
      [] k = saugeen -> [domain |-> "Nature", frequency |-> <<"D">>, num_variates |-> 1]
      [] k = car_parts -> [domain |-> "Sales", frequency |-> <<"M">>, num_variates |-> 1]

RECURSIVE text(_)
\* the Python str whose characters are s
text(s) == IF s = <<>> THEN "" ELSE s[1] \o text(Tail(s))

\* Dataset(name, term): the attributes the notebooks read
Dataset(ds_name, term) ==
    LET short_length ==
            CASE ds_name = m4_weekly -> 13
              [] ds_name = bizitobs_l2c_H -> 48
              [] ds_name = SZ_TAXI_H -> 48
              [] ds_name = saugeenday_D -> 30
              [] ds_name = car_parts_with_missing -> 12
        factor == CASE term = "short" -> 1 [] term = "medium" -> 10 [] term = "long" -> 15
    IN  [prediction_length |-> short_length * factor,
         target_dim |-> IF ds_name = bizitobs_l2c_H THEN 7 ELSE 1,
         past_feat_dynamic_real_dim |-> 0]

\* the metrics of the result frame
metric_names ==
    {"MSE[mean]", "MSE[0.5]", "MAE[0.5]", "MASE[0.5]", "MAPE[0.5]", "sMAPE[0.5]",
     "MSIS", "RMSE[mean]", "NRMSE[mean]", "ND[0.5]", "mean_weighted_sum_quantile_loss"}

\* str(res[metric][0]) of the evaluation of one pair
metric_value(metric, ds_name, term) ==
    metric \o "(" \o text(ds_name) \o "," \o term \o ")"

\* evaluate_model(predictor, test_data=dataset.test_data, metrics=metrics, ...)
evaluate_model(ds_name, term) ==
    [m \in metric_names |-> metric_value(m, ds_name, term)]

header_row ==
    <<"dataset", "model", "eval_metrics/MSE[mean]", "eval_metrics/MSE[0.5]",
      "eval_metrics/MAE[0.5]", "eval_metrics/MASE[0.5]", "eval_metrics/MAPE[0.5]",
      "eval_metrics/sMAPE[0.5]", "eval_metrics/MSIS", "eval_metrics/RMSE[mean]",
      "eval_metrics/NRMSE[mean]", "eval_metrics/ND[0.5]",
      "eval_metrics/mean_weighted_sum_quantile_loss", "domain", "num_variates">>

model_name(nb) ==
    CASE nb = "chronos" -> "chronos_bolt_base"
      [] nb = "moirai" -> "moirai_small"
      [] nb = "feedforward" -> "feedforward"
      [] nb = "combined" -> "feedforward"

\* a row with the MAE and MASE values in each other's place
result_row_swapped(config, model, r, k) ==
    <<config, model, r["MSE[mean]"], r["MSE[0.5]"], r["MASE[0.5]"], r["MAE[0.5]"],
      r["MAPE[0.5]"], r["sMAPE[0.5]"], r["MSIS"], r["RMSE[mean]"], r["NRMSE[mean]"],
      r["ND[0.5]"], r["mean_weighted_sum_quantile_loss"],
      dataset_properties_map(k).domain, ToString(dataset_properties_map(k).num_variates)>>

\* the list handed to writer.writerow for a result
result_row(config, model, r, k) ==
    <<config, model, r["MSE[mean]"], r["MSE[0.5]"], r["MAE[0.5]"], r["MASE[0.5]"],
      r["MAPE[0.5]"], r["sMAPE[0.5]"], r["MSIS"], r["RMSE[mean]"], r["NRMSE[mean]"],
      r["ND[0.5]"], r["mean_weighted_sum_quantile_loss"],
      dataset_properties_map(k).domain, ToString(dataset_properties_map(k).num_variates)>>

\* the continue of a loop that skips the medium term only
skip_medium_only(nb, ds_name, term) ==
    IF nb = "combined" THEN term # "short"
    ELSE term = "medium" /\ ds_name \notin med_long_datasets

\* the condition of the loop's continue
skip(nb, ds_name, term) ==
    IF nb = "combined" THEN term # "short"
    ELSE (term = "medium" \/ term = "long") /\ ds_name \notin med_long_datasets

\* ds_key of the quick-start loops, without lower()
quick_ds_key_as_listed(ds_name) ==
    IF contains(ds_name, "/")
    THEN pretty_names_get(split(ds_name, "/")[1])
    ELSE pretty_names_get(ds_name)

\* ds_key of the quick-start loops
quick_ds_key(ds_name) ==
    IF contains(ds_name, "/")
    THEN pretty_names_get(lower(split(ds_name, "/")[1]))
    ELSE pretty_names_get(lower(ds_name))

\* get_dataset_key of the training notebook
get_dataset_key(dataset_name) ==
    IF contains(dataset_name, "/") THEN split(dataset_name, "/")[1]
    ELSE lower(dataset_name)

\* f"{key}/{freq}/{term}"
format_config(k, freq, term) == text(k) \o "/" \o text(freq) \o "/" \o term

\* the indices <<ds_num, term_num>> of the iteration after the current one
advance(nb) ==
    IF nb = "combined"
    THEN IF ds_num < Len(all_datasets) THEN <<ds_num + 1, term_num>>
         ELSE <<1, term_num + 1>>
    ELSE IF term_num < Len(terms) THEN <<ds_num, term_num + 1>>
         ELSE <<ds_num + 1, 1>>

\* the loops have run through
exhausted(nb) ==
    IF nb = "combined" THEN term_num > Len(terms) ELSE ds_num > Len(all_datasets)

\* lists of at most n different dataset names
RECURSIVE name_lists(_)
name_lists(n) ==
    IF n = 0 THEN {<<>>}
    ELSE name_lists(n - 1)
            \cup {Append(l, d) : l \in {x \in name_lists(n - 1) : Len(x) = n - 1},
                                 d \in DatasetNames}

distinct(l) == \A i, j \in 1..Len(l) : i # j => l[i] # l[j]

\* model.hparams after model = MoiraiForecast(...)
MoiraiForecast ==
    [prediction_length |-> 1, context_length |-> 4000, patch_size |-> 32,
     num_samples |-> 100, target_dim |-> 1, feat_dynamic_real_dim |-> 0,
     past_feat_dynamic_real_dim |-> 0]

\* hyperparameters of which only the prediction length is set for the pair
set_hparams_prediction_length_only(h, dataset) ==
    [h EXCEPT !.prediction_length = dataset.prediction_length]

\* moirai: the three assignments to model.hparams
set_hparams(h, dataset) ==
    [h EXCEPT !.prediction_length = dataset.prediction_length,
              !.target_dim = dataset.target_dim,
              !.past_feat_dynamic_real_dim = dataset.past_feat_dynamic_real_dim]

\* moirai: model.create_predictor(batch_size=512) with the hyperparameters h
create_predictor(h, size) == [hparams |-> h, batch_size |-> size]

\* the predictor a quick-start loop makes for a pair, given model.hparams
make_predictor(nb, h, dataset) ==
    IF nb = "moirai" THEN create_predictor(h, 512)
    ELSE [prediction_length |-> dataset.prediction_length]

\* what the results file may hold before the cell runs: nothing, or an older run
older_files == {<<>>, <<header_row, <<"older run">>>>}

EvalInit ==
    /\ notebook \in Notebooks
    /\ all_datasets \in {l \in name_lists(MaxDatasets) : Len(l) >= 1 /\ distinct(l)}
    /\ med_long_datasets \in SUBSET {all_datasets[i] : i \in 1..Len(all_datasets)}
    \* training notebook: all_dataset_names = [short_dataset, med_long_dataset]
    /\ notebook = "combined" =>
          /\ Len(all_datasets) = 2
          /\ med_long_datasets = {all_datasets[i] : i \in 1..Len(all_datasets)}
                                     \cap {bizitobs_l2c_H}
    /\ csvfile \in older_files
    /\ ds_num = 0 /\ term_num = 0
    /\ ds_key = <<>> /\ ds_freq = <<>> /\ ds_config = "" /\ res = <<>>
    /\ hparams = IF notebook = "moirai" THEN MoiraiForecast ELSE None
    /\ predictor = None
    /\ evaluated = <<>>
    /\ epc = "header"
    /\ IdleKey /\ IdlePred /\ IdleJob /\ IdleMerge

\* with open(csv_file_path, "w"): writer.writerow(header)
WriteHeader ==
    /\ epc = "header"
    /\ csvfile' = <<header_row>>
    /\ ds_num' = 1 /\ term_num' = 1
    /\ epc' = "loop"
    /\ UNCHANGED <<notebook, all_datasets, med_long_datasets, ds_key, ds_freq,
                   ds_config, res, hparams, predictor, evaluated,
                   keyVars, predVars, jobVars, mergeVars>>

\* the loops end
LoopExit ==
    /\ epc = "loop"
    /\ exhausted(notebook)
    /\ epc' = "done"
    /\ UNCHANGED <<notebook, all_datasets, med_long_datasets, csvfile, ds_num,
                   term_num, ds_key, ds_freq, ds_config, res, hparams, predictor,
                   evaluated, keyVars, predVars, jobVars, mergeVars>>

\* continue
Skip ==
    /\ epc = "loop"
    /\ ~exhausted(notebook)
    /\ skip(notebook, all_datasets[ds_num], terms[term_num])
    /\ ds_num' = advance(notebook)[1]
    /\ term_num' = advance(notebook)[2]
    /\ UNCHANGED <<notebook, all_datasets, med_long_datasets, csvfile, ds_key, ds_freq,
                   ds_config, res, hparams, predictor, evaluated, epc,
                   keyVars, predVars, jobVars, mergeVars>>

\* quick-start loops: ds_key, ds_freq and ds_config of the pair; the lookup of
\* the frequency raises KeyError for a key the properties map does not have
Configure ==
    /\ epc = "loop"
    /\ notebook \in QuickStart
    /\ ~exhausted(notebook)
    /\ ~skip(notebook, all_datasets[ds_num], terms[term_num])
    /\ LET ds_name == all_datasets[ds_num]
           k == quick_ds_key(ds_name)
       IN  /\ ds_key' = k
           /\ IF contains(ds_name, "/")
              THEN /\ ds_freq' = split(ds_name, "/")[2]
                   /\ ds_config' = format_config(k, split(ds_name, "/")[2], terms[term_num])
                   /\ epc' = "evaluate"
              ELSE IF k \in dataset_properties_keys
                   THEN /\ ds_freq' = dataset_properties_map(k).frequency
                        /\ ds_config' = format_config(k, dataset_properties_map(k).frequency,
                                                      terms[term_num])
                        /\ epc' = "evaluate"
                   ELSE /\ epc' = "raised"
                        /\ UNCHANGED <<ds_freq, ds_config, mergeVars>>
    /\ UNCHANGED <<notebook, all_datasets, med_long_datasets, csvfile, ds_num,
                   term_num, res, hparams, predictor, evaluated,
                   keyVars, predVars, jobVars, mergeVars>>

\* quick-start loops: the Dataset, the predictor (moirai sets model.hparams
\* first) and evaluate_model, which returns
Evaluate ==
    /\ epc = "evaluate"
    /\ LET ds_name == all_datasets[ds_num]
           term == terms[term_num]
           dataset == Dataset(ds_name, term)
       IN  /\ hparams' = IF notebook = "moirai" THEN set_hparams(hparams, dataset)
                          ELSE hparams
           /\ predictor' = make_predictor(notebook, hparams', dataset)
           /\ evaluated' = Append(evaluated, <<ds_name, term>>)
           /\ res' = evaluate_model(ds_name, term)
    /\ epc' = "append"
    /\ UNCHANGED <<notebook, all_datasets, med_long_datasets, csvfile, ds_num,
                   term_num, ds_key, ds_freq, ds_config, keyVars, predVars, jobVars,
                   mergeVars>>

\* evaluate_model raises: in a quick-start loop after the predictor of the
\* pair was made, in the training notebook inside perform_inference
EvaluateFails ==
    /\ \/ epc = "evaluate"
       \/ /\ epc = "loop" /\ notebook = "combined"
          /\ ~exhausted(notebook)
          /\ ~skip(notebook, all_datasets[ds_num], terms[term_num])
    /\ LET dataset == Dataset(all_datasets[ds_num], terms[term_num])
       IN  /\ hparams' = IF notebook = "moirai" THEN set_hparams(hparams, dataset)
                          ELSE hparams
           /\ predictor' = IF notebook = "combined" THEN predictor
                           ELSE make_predictor(notebook, hparams', dataset)
    /\ evaluated' = Append(evaluated, <<all_datasets[ds_num], terms[term_num]>>)
    /\ epc' = "raised"
    /\ UNCHANGED <<notebook, all_datasets, med_long_datasets, csvfile, ds_num,
                   term_num, ds_key, ds_freq, ds_config, res, keyVars, predVars, jobVars,
                   mergeVars>>

\* a row written with open(csv_file_path, "w")
AppendRowTruncating ==
    /\ epc = "append"
    /\ ds_key \in dataset_properties_keys
    /\ csvfile' = <<result_row(ds_config, model_name(notebook), res, ds_key)>>
    /\ ds_num' = advance(notebook)[1]
    /\ term_num' = advance(notebook)[2]
    /\ epc' = "loop"
    /\ UNCHANGED <<notebook, all_datasets, med_long_datasets, ds_key, ds_freq,
                   ds_config, res, hparams, predictor, evaluated,
                   keyVars, predVars, jobVars, mergeVars>>

\* quick-start loops: with open(csv_file_path, "a"): writer.writerow(row);
\* building the row raises KeyError for a key the properties map does not have
AppendRow ==
    /\ epc = "append"
    /\ IF ds_key \in dataset_properties_keys
       THEN /\ csvfile' = Append(csvfile,
                                 result_row(ds_config, model_name(notebook), res, ds_key))
            /\ ds_num' = advance(notebook)[1]
            /\ term_num' = advance(notebook)[2]
            /\ epc' = "loop"
       ELSE /\ epc' = "raised"
            /\ UNCHANGED <<csvfile, ds_num, term_num, mergeVars>>
    /\ UNCHANGED <<notebook, all_datasets, med_long_datasets, ds_key, ds_freq,
                   ds_config, res, hparams, predictor, evaluated,
                   keyVars, predVars, jobVars, mergeVars>>

\* training notebook: results = perform_inference(predictor, term, dataset_name)
PerformInference ==
    /\ epc = "loop"
    /\ notebook = "combined"
    /\ ~exhausted(notebook)
    /\ ~skip(notebook, all_datasets[ds_num], terms[term_num])
    /\ evaluated' = Append(evaluated, <<all_datasets[ds_num], terms[term_num]>>)
    /\ res' = evaluate_model(all_datasets[ds_num], terms[term_num])
    /\ epc' = "write_to_csv"
    /\ UNCHANGED <<notebook, all_datasets, med_long_datasets, csvfile, ds_num,
                   term_num, ds_key, ds_freq, ds_config, hparams, predictor,
                   keyVars, predVars, jobVars, mergeVars>>

\* training notebook: write_to_csv(results, csv_file_path, term, dataset_name);
\* get_dataset_freq and the row raise KeyError for a key the map does not have
WriteToCsv ==
    /\ epc = "write_to_csv"
    /\ LET dataset_name == all_datasets[ds_num]
           k == get_dataset_key(dataset_name)
           freq == IF contains(dataset_name, "/") THEN split(dataset_name, "/")[2]
                   ELSE dataset_properties_map(k).frequency
       IN  IF k \in dataset_properties_keys
           THEN /\ ds_key' = k
                /\ ds_freq' = freq
                /\ ds_config' = format_config(k, freq, terms[term_num])
                /\ csvfile' = Append(csvfile,
                                     result_row(ds_config', model_name(notebook), res, k))
                /\ ds_num' = advance(notebook)[1]
                /\ term_num' = advance(notebook)[2]
                /\ epc' = "loop"
           ELSE /\ epc' = "raised"
                /\ UNCHANGED <<csvfile, ds_num, term_num, ds_key, ds_freq, ds_config, mergeVars>>
    /\ UNCHANGED <<notebook, all_datasets, med_long_datasets, res, hparams, predictor,
                   evaluated, keyVars, predVars, jobVars, mergeVars>>

EvalNext ==
    \/ WriteHeader
    \/ LoopExit
    \/ Skip
    \/ Configure
    \/ Evaluate
    \/ EvaluateFails
    \/ AppendRow
    \/ PerformInference
    \/ WriteToCsv

SpecEval == EvalInit /\ [][EvalNext]_vars

(***************************************************************************)
(* Properties of the evaluation loops.                                     *)
(***************************************************************************)
\* the pairs of all_datasets x terms the loop is to evaluate
PairsToEvaluate ==
    {<<all_datasets[i], terms[j]>> : i \in 1..Len(all_datasets), j \in 1..Len(terms)}

\* the data rows the run has written to the results file
DataRows ==
    IF epc = "header" THEN <<>> ELSE [i \in 1..(Len(csvfile) - 1) |-> csvfile[i + 1]]

\* row r reports the evaluation of the pair <<d, t>>
RowOf(r, d, t) == Len(r) >= 3 /\ r[3] = metric_value("MSE[mean]", d, t)

\* C1: in the quick-start loops a pair of all_datasets x terms is evaluated
\* iff its term is short or its dataset is in med_long_datasets; after a
\* complete run the file holds |all_datasets| + 2 * |all_datasets intersect
\* med_long_datasets| data rows, one for every evaluated pair and none for
\* any other pair.
C1_EvaluatedPairsAndRowCount ==
    notebook \in QuickStart =>
       /\ \A i \in 1..Len(evaluated) :
             /\ evaluated[i] \in PairsToEvaluate
             /\ evaluated[i][2] = "short" \/ evaluated[i][1] \in med_long_datasets
       /\ distinct(evaluated)
       /\ epc = "done" =>
             /\ \A p \in PairsToEvaluate :
                   (\E i \in 1..Len(evaluated) : evaluated[i] = p)
                      <=> (p[2] = "short" \/ p[1] \in med_long_datasets)
             /\ Len(DataRows) =
                   Len(all_datasets)
                      + 2 * Cardinality({all_datasets[i] : i \in 1..Len(all_datasets)}
                                           \cap med_long_datasets)
             /\ \A p \in PairsToEvaluate :
                   Cardinality({i \in 1..Len(DataRows) : RowOf(DataRows[i], p[1], p[2])})
                      = IF p[2] = "short" \/ p[1] \in med_long_datasets THEN 1 ELSE 0

\* A quick-start run over two datasets, one of them in med_long_datasets,
\* is complete and left four data rows.
C1_Witness ==
    /\ notebook = "moirai"
    /\ epc = "done"
    /\ Len(all_datasets) = 2
    /\ Cardinality(med_long_datasets) = 1
    /\ Len(evaluated) = 4
    /\ Len(csvfile) = 5

\* the position of the pair p in the order of the loops
LoopPosition(p) ==
    LET i == CHOOSE k \in 1..Len(all_datasets) : all_datasets[k] = p[1]
        j == CHOOSE k \in 1..Len(terms) : terms[k] = p[2]
    IN  (i - 1) * Len(terms) + j

\* the file is the header followed by the rows of the first evaluated pairs,
\* which were evaluated in the order of the loops
C2_FileIsHeaderThenPrefix ==
    epc # "header" =>
       /\ Len(csvfile) >= 1
       /\ csvfile[1] = header_row
       /\ \A i \in 1..Len(DataRows) : DataRows[i] # header_row
       /\ Len(DataRows) <= Len(evaluated)
       /\ Len(evaluated) <= Len(DataRows) + 1
       /\ \A i \in 1..Len(DataRows) :
             RowOf(DataRows[i], evaluated[i][1], evaluated[i][2])
       /\ \A i, j \in 1..Len(evaluated) :
             i < j => LoopPosition(evaluated[i]) < LoopPosition(evaluated[j])

\* a step keeps every line of the file
C2_RowsStay ==
    epc # "header" =>
       /\ Len(csvfile') >= Len(csvfile)
       /\ \A i \in 1..Len(csvfile) : csvfile'[i] = csvfile[i]

\* C2: once the header is written the file is the header line, once and
\* first, followed by the rows of a prefix of the sequence of evaluated
\* pairs in loop order, and no step changes or removes a line of the file;
\* when evaluate_model fails the rows of all earlier pairs are in the file.
C2_HeaderOnceThenRowsInLoopOrder ==
    /\ []C2_FileIsHeaderThenPrefix
    /\ [][C2_RowsStay]_vars

\* evaluate_model failed on the third pair of a run that replaced the file
\* of an older run, and the rows of the first two pairs are in the file.
C2_Witness ==
    /\ notebook = "chronos"
    /\ epc = "raised"
    /\ Len(evaluated) = 3
    /\ Len(csvfile) = 3
    /\ csvfile[1] = header_row
    /\ RowOf(csvfile[3], evaluated[2][1], evaluated[2][2])

\* the part of a listed name after its first "/"
AfterFirstSlash(n) == SubSeq(n, Len(BeforeFirstSlash(n)) + 2, Len(n))

\* the frequency of a listed name whose key in dataset_properties_map is k
ExpectedFreq(n, k) ==
    IF contains(n, "/") THEN AfterFirstSlash(n) ELSE dataset_properties_map(k).frequency

\* the dataset key of a row: the quick-start loops lower-case the part of
\* the listed name before "/" and replace it by its pretty name; the training
\* notebook takes the part before "/" as it is and lower-cases a name
\* without "/"
ExpectedDatasetKey(nb, n) ==
    IF nb \in QuickStart THEN ExpectedKey(n)
    ELSE IF contains(n, "/") THEN BeforeFirstSlash(n) ELSE lower(n)

\* the config name of the row of the pair <<n, t>>
ExpectedConfig(nb, n, t) ==
    LET k == ExpectedDatasetKey(nb, n)
    IN  text(k) \o "/" \o text(ExpectedFreq(n, k)) \o "/" \o t

MetricOfColumn(j) ==
    CHOOSE m \in metric_names : header_row[j] = "eval_metrics/" \o m

\* C5: every data row has the 15 fields of the header, and field i holds the
\* value header column i names: the config name, the model name, the eleven
\* metrics in header order, then the domain and num_variates of the entry of
\* the dataset key in dataset_properties_map.
C5_RowMatchesHeader ==
    /\ Len(header_row) = 15
    /\ \A j \in 3..13 : \E m \in metric_names : header_row[j] = "eval_metrics/" \o m
    /\ <<header_row[1], header_row[2], header_row[14], header_row[15]>>
          = <<"dataset", "model", "domain", "num_variates">>
    /\ <<MetricOfColumn(3), MetricOfColumn(4), MetricOfColumn(5), MetricOfColumn(6),
         MetricOfColumn(7), MetricOfColumn(8), MetricOfColumn(9), MetricOfColumn(10),
         MetricOfColumn(11), MetricOfColumn(12), MetricOfColumn(13)>>
          = <<"MSE[mean]", "MSE[0.5]", "MAE[0.5]", "MASE[0.5]", "MAPE[0.5]", "sMAPE[0.5]",
              "MSIS", "RMSE[mean]", "NRMSE[mean]", "ND[0.5]",
              "mean_weighted_sum_quantile_loss">>
    /\ \A i \in 1..Len(DataRows) :
          LET r == DataRows[i]
              n == evaluated[i][1]
              t == evaluated[i][2]
              k == ExpectedDatasetKey(notebook, n)
          IN  /\ Len(r) = Len(header_row)
              /\ r[1] = ExpectedConfig(notebook, n, t)
              /\ r[2] = model_name(notebook)
              /\ \A j \in 3..13 : r[j] = metric_value(MetricOfColumn(j), n, t)
              /\ r[14] = dataset_properties_map(k).domain
              /\ r[15] = ToString(dataset_properties_map(k).num_variates)

\* write_to_csv of the training notebook wrote the row of the seven-variate
\* bizitobs_l2c/H, and a quick-start loop wrote a row of a univariate dataset.
C5_Witness ==
    \/ /\ notebook = "combined"
       /\ Len(csvfile) = 2
       /\ Len(evaluated) >= 1
       /\ evaluated[1] = <<bizitobs_l2c_H, "short">>
       /\ csvfile[2][2] = "feedforward"
       /\ csvfile[2][5] = metric_value("MAE[0.5]", bizitobs_l2c_H, "short")
       /\ csvfile[2][14] = "Web/CloudOps"
       /\ csvfile[2][15] = "7"
    \/ /\ notebook = "feedforward"
       /\ Len(csvfile) = 2
       /\ Len(evaluated) >= 1
       /\ evaluated[1] = <<car_parts_with_missing, "short">>
       /\ csvfile[2][15] = "1"

\* C13: in the Moirai loop every call of evaluate_model for a pair uses a
\* predictor created from model.hparams whose prediction_length, target_dim
\* and past_feat_dynamic_real_dim are those of the pair's Dataset, and nothing
\* is left of the values of the pair before.
C13_PredictorHasHparamsOfPair ==
    notebook = "moirai" /\ Len(evaluated) >= 1 =>
       LET p == evaluated[Len(evaluated)]
           d == Dataset(p[1], p[2])
       IN  /\ predictor.hparams = hparams
           /\ predictor.batch_size = 512
           /\ hparams.prediction_length = d.prediction_length
           /\ hparams.target_dim = d.target_dim
           /\ hparams.past_feat_dynamic_real_dim = d.past_feat_dynamic_real_dim
           /\ hparams.context_length = 4000
           /\ hparams.patch_size = 32

\* The Moirai loop evaluated the seven-variate bizitobs_l2c/H for the long
\* term and then the univariate m4_weekly for the short term.
C13_Witness ==
    /\ notebook = "moirai"
    /\ epc = "append"
    /\ Len(evaluated) = 4
    /\ evaluated[3] = <<bizitobs_l2c_H, "long">>
    /\ evaluated[4] = <<m4_weekly, "short">>
    /\ predictor.hparams.prediction_length = 13
    /\ predictor.hparams.target_dim = 1

\* the task has logged "No errors"
LoggedNoErrors(t) == \E i \in 1..Len(log[t]) : log[t][i] = "No errors"

\* C14: in eval_taskbench, a task has logged "No errors" or has its done
\* file only when all four shard processes it started have terminated.
C14_DoneOnlyAfterAllShardsTerminated ==
    script = "eval_taskbench" =>
       \A t \in Tasks :
          (\/ LoggedNoErrors(t)
           \/ normpath(taskbench_done_file(t, env[t])) \in DOMAIN fs_files
           \/ jpc[t] \in {"after_wait", "got_done_file", "exit0"})
             => /\ spawned[t] = 4
                /\ children[t] = {}

\* One eval_taskbench task has logged "No errors" and made its done file
\* after its four shards ended; shards of the other task are still running.
C14_Witness ==
    /\ script = "eval_taskbench"
    /\ LoggedNoErrors(1)
    /\ normpath(taskbench_done_file(1, env[1])) \in DOMAIN fs_files
    /\ spawned[1] = 4
    /\ children[1] = {}
    /\ children[2] # {}

(***************************************************************************)
(* The pretraining domain merge (archive/pretrain_domain.ipynb): the       *)
(* domain column of dataset_info.csv is emptied, filled from the rows of   *)
(* partial_dataset_info.csv with the same name, filled again from the rows *)
(* whose name up to the first "_" is a prefix of the name, and what is     *)
(* still empty is set to Energy.  partial_dataset_info.csv has one row per *)
(* dataset; dataset_info.csv may have several rows of one name.            *)
(***************************************************************************)
MaxRows == 2

bdg_2_panther == <<"b", "d", "g", "-", "2", "_", "p", "a", "n", "t", "h", "e", "r">>
bdg_2_fox == <<"b", "d", "g", "-", "2", "_", "f", "o", "x">>
covid19_energy == <<"c", "o", "v", "i", "d", "1", "9", "_", "e", "n", "e", "r", "g", "y">>
covid_mobility == <<"c", "o", "v", "i", "d", "_", "m", "o", "b", "i", "l", "i", "t", "y">>
lcl == <<"l", "c", "l">>

InputNames == {bdg_2_panther, bdg_2_fox, covid19_energy, covid_mobility}
OutputNames == {bdg_2_panther, covid19_energy, lcl}
Domains == {"Energy", "Transport"}

\* s.startswith(prefix)
startswith(s, prefix) ==
    Len(prefix) <= Len(s) /\ SubSeq(s, 1, Len(prefix)) = prefix

\* input_row["name"].split("_")[0]
cleaned_name(n) == split(n, "_")[1]

RECURSIVE row_lists(_, _)
\* lists of at most n rows
row_lists(n, rows) ==
    IF n = 0 THEN {<<>>}
    ELSE row_lists(n - 1, rows)
            \cup {Append(l, r) : l \in {x \in row_lists(n - 1, rows) : Len(x) = n - 1},
                                 r \in rows}

MergeInit ==
    /\ df_input \in
          {l \in row_lists(MaxRows, [name : InputNames, domain : Domains]) :
              /\ Len(l) >= 1
              /\ \A i, j \in 1..Len(l) : i # j => l[i].name # l[j].name}
    /\ \E stale \in {"", "Climate"} :
          df_output \in
             {l \in row_lists(MaxRows, [name : OutputNames, domain : {stale}]) :
                 Len(l) >= 1}
    /\ dataset_info_csv = df_output
    /\ input_row = 0
    /\ mpc = "reset"
    /\ IdleKey /\ IdleEval /\ IdlePred /\ IdleJob

\* df_output["domain"] = ""; df_output.to_csv(output_path, index=False)
ResetDomain ==
    /\ mpc = "reset"
    /\ df_output' = [j \in 1..Len(df_output) |-> [df_output[j] EXCEPT !.domain = ""]]
    /\ dataset_info_csv' = df_output'
    /\ input_row' = 1
    /\ mpc' = "exact"
    /\ UNCHANGED <<df_input, keyVars, evalVars, predVars, jobVars>>

\* exact-name pass, one row of df_input: every output row of the same name
\* gets the row's domain
ExactPassRow ==
    /\ mpc = "exact"
    /\ input_row <= Len(df_input)
    /\ df_output' =
          [j \in 1..Len(df_output) |->
              IF df_input[input_row].name = df_output[j].name
              THEN [df_output[j] EXCEPT !.domain = df_input[input_row].domain]
              ELSE df_output[j]]
    /\ input_row' = input_row + 1
    /\ UNCHANGED <<df_input, dataset_info_csv, mpc, keyVars, evalVars, predVars, jobVars>>

\* the exact-name pass ends: df_output.to_csv(output_path, index=False)
ExactPassSave ==
    /\ mpc = "exact"
    /\ input_row > Len(df_input)
    /\ dataset_info_csv' = df_output
    /\ input_row' = 1
    /\ mpc' = "prefix"
    /\ UNCHANGED <<df_input, df_output, keyVars, evalVars, predVars, jobVars>>

\* a prefix pass that fills only the rows whose domain is still empty
PrefixPassRowFillsEmptyOnly ==
    /\ mpc = "prefix"
    /\ input_row <= Len(df_input)
    /\ df_output' =
          [j \in 1..Len(df_output) |->
              IF /\ startswith(df_output[j].name, cleaned_name(df_input[input_row].name))
                 /\ df_output[j].domain = ""
              THEN [df_output[j] EXCEPT !.domain = df_input[input_row].domain]
              ELSE df_output[j]]
    /\ input_row' = input_row + 1
    /\ UNCHANGED <<df_input, dataset_info_csv, mpc, keyVars, evalVars, predVars, jobVars>>

\* prefix pass, one row of df_input: every output row whose name starts with
\* the row's cleaned name gets the row's domain
PrefixPassRow ==
    /\ mpc = "prefix"
    /\ input_row <= Len(df_input)
    /\ LET indices == {j \in 1..Len(df_output) :
                          startswith(df_output[j].name,
                                     cleaned_name(df_input[input_row].name))}
       IN  df_output' =
              [j \in 1..Len(df_output) |->
                  IF j \in indices
                  THEN [df_output[j] EXCEPT !.domain = df_input[input_row].domain]
                  ELSE df_output[j]]
    /\ input_row' = input_row + 1
    /\ UNCHANGED <<df_input, dataset_info_csv, mpc, keyVars, evalVars, predVars, jobVars>>

\* the prefix pass ends: df_output.to_csv(output_path, index=False)
PrefixPassSave ==
    /\ mpc = "prefix"
    /\ input_row > Len(df_input)
    /\ dataset_info_csv' = df_output
    /\ mpc' = "fill"
    /\ UNCHANGED <<df_input, df_output, input_row, keyVars, evalVars, predVars, jobVars>>

\* df_output.loc[df_output["domain"] == "", "domain"] = "Energy"; to_csv
FillEmpty ==
    /\ mpc = "fill"
    /\ df_output' =
          [j \in 1..Len(df_output) |->
              IF df_output[j].domain = "" THEN [df_output[j] EXCEPT !.domain = "Energy"]
              ELSE df_output[j]]
    /\ dataset_info_csv' = df_output'
    /\ mpc' = "done"
    /\ UNCHANGED <<df_input, input_row, keyVars, evalVars, predVars, jobVars>>

MergeNext ==
    \/ ResetDomain
    \/ ExactPassRow
    \/ ExactPassSave
    \/ PrefixPassRow
    \/ PrefixPassSave
    \/ FillEmpty

SpecMerge == MergeInit /\ [][MergeNext]_vars

\* C15 as stated: after both merge passes, an output row whose name equals
\* the name of an input row has that input row's domain.
C15_ExactMatchKeepsDomain ==
    mpc \in {"fill", "done"} =>
       \A j \in 1..Len(df_output) : \A i \in 1..Len(df_input) :
          df_output[j].name = df_input[i].name
             => df_output[j].domain = df_input[i].domain

\* the input rows whose cleaned name is a prefix of the name n
PrefixMatches(n) ==
    {i \in 1..Len(df_input) : startswith(n, cleaned_name(df_input[i].name))}

\* C15, what the passes do: after the prefix pass every output row whose name
\* begins with the cleaned name of some input row has the domain of the last
\* such input row, whether or not its name equals the name of an input row;
\* the other rows are empty until they are set to Energy.
C15_LastPrefixMatchWins ==
    mpc \in {"fill", "done"} =>
       \A j \in 1..Len(df_output) :
          LET m == PrefixMatches(df_output[j].name)
          IN  IF m = {}
              THEN df_output[j].domain = IF mpc = "done" THEN "Energy" ELSE ""
              ELSE df_output[j].domain
                      = df_input[CHOOSE i \in m : \A k \in m : k <= i].domain

\* The row covid19_energy of the output got Energy from the input row of the
\* same name in the exact pass and Transport from covid_mobility, whose
\* cleaned name covid is a prefix of it, in the prefix pass.
C15_Witness ==
    /\ mpc = "done"
    /\ Len(df_input) = 2
    /\ df_input[1] = [name |-> covid19_energy, domain |-> "Energy"]
    /\ df_input[2] = [name |-> covid_mobility, domain |-> "Transport"]
    /\ df_output[1] = [name |-> covid19_energy, domain |-> "Transport"]
    /\ dataset_info_csv = df_output

====
